---- MODULE Spec2Model ----
(***************************************************************************)
(* Payment authorization reconciliation of the SeeAgain server: the        *)
(* payments.json ledger, the capture / cancel logic, the Stripe webhook,   *)
(* the job-completion path and the stuck-authorization sweep.              *)
(*                                                                         *)
(* One step of the model is one synchronous run of the event loop: a       *)
(* handler runs from its start, or from the resolution of the Stripe call  *)
(* it awaits, up to its next Stripe call or its end.                       *)
(***************************************************************************)
EXTENDS Integers, Sequences, FiniteSets

\* ------------------------------------------------------------------ bounds
MaxTime == 2
MaxCalls == 2
MaxSweeps == 1
\* notices delivered per job in the specification with repeated notices
MaxNotices == 3
\* status checks of one /animate_photo request before its 5 minutes are over
MaxPolls == 2

\* The clock counts units of 2 hours: the timeout of 2 * 60 * 60 * 1000 ms is
\* one unit.
AUTHORIZATION_TIMEOUT_MS == 1

Jobs == {"job-1", "job-2"}
Refs == {"pi_1", "pi_2", "pi_3"}
Null == "null"
\* The checkout sessions whose events reach the webhook (event.data.object):
\* one per job, a second checkout for job-1, one without metadata.jobId and
\* one without payment_intent.
CheckoutSessions ==
  {[id |-> "sess_1", jobId |-> "job-1", payment_intent |-> "pi_1"],
   [id |-> "sess_2", jobId |-> "job-2", payment_intent |-> "pi_2"],
   [id |-> "sess_3", jobId |-> "job-1", payment_intent |-> "pi_3"],
   [id |-> "sess_4", jobId |-> Null, payment_intent |-> "pi_1"],
   [id |-> "sess_5", jobId |-> "job-2", payment_intent |-> Null]}
\* record.updatedAt is written and never read: the model keeps whether it
\* is undefined (markJobStatus never touched the record) or a time stamp
Undefined == "undefined"
Stamp == "stamp"

Ops == {"capture", "cancel"}
Statuses == {"authorized", "render_succeeded", "render_failed", "captured",
             "canceled", "capture_failed", "cancel_failed", "payment_failed"}
\* fs.writeFileSync: done, thrown before the file was touched, thrown after
\* the file was truncated
WriteOutcomes == {"ok", "unchanged", "truncated"}

VARIABLES
  paymentsStore,  \* the in-memory ledger: jobId -> record, for the jobIds present
  keyOrder,       \* the property order of paymentsStore (Object.entries order)
  disk,           \* payments.json
  now,            \* Date.now()
  inFlight,       \* Stripe calls awaited by notice handlers: <<jobId, op>> -> count
  sweeps,         \* suspended sweep passes: [now, rest], awaiting cancel of Head(rest)
  stripeCalls,    \* every call issued to Stripe so far: <<jobId, op, ref>> -> count
  writeFailed,    \* a write of payments.json failed since the process started
  delivered,      \* SpecPair only: the notices delivered for each job, in order
  restarted,      \* SpecLive only: the process has restarted
  succeeded,      \* SpecOutcomes only: the jobs a success outcome was received for
  STRIPE_WEBHOOK_SECRET, \* process.env.STRIPE_WEBHOOK_SECRET: a secret, or Null
  unverified,     \* SpecWebhook only: an event that fails verification was handled
  rejected,       \* SpecWebhook only: a webhook request was answered 400
  animate         \* SpecAnimate only: the POST /animate_photo request being served

\* what the scenario specifications record about a run
webhook == <<STRIPE_WEBHOOK_SECRET, unverified, rejected>>

scenario == <<delivered, restarted, succeeded, webhook, animate>>

vars == <<paymentsStore, keyOrder, disk, now, inFlight, sweeps, stripeCalls,
          writeFailed, delivered, restarted, succeeded,
          STRIPE_WEBHOOK_SECRET, unverified, rejected, animate>>

\* ------------------------------------------------------------ ledger store
Has(ps, jobId) == jobId \in DOMAIN ps

\* mutant: the record is stored under every jobId of the ledger
Put_Everywhere(ps, jobId, record) == [k \in DOMAIN ps \cup {jobId} |-> record]

Put(ps, jobId, record) ==
  IF jobId \in DOMAIN ps
    THEN [ps EXCEPT ![jobId] = record]
    ELSE [k \in DOMAIN ps \cup {jobId} |-> IF k = jobId THEN record ELSE ps[k]]

\* JSON.stringify of one record: a property whose value is undefined is left out
RecordToJSON(record) ==
  IF record.updatedAt = Undefined
    THEN [paymentIntentId |-> record.paymentIntentId, sessionId |-> record.sessionId,
          status |-> record.status, createdAt |-> record.createdAt]
    ELSE record

\* reading a parsed record: a missing property reads as undefined
RecordFromJSON(obj) ==
  IF "updatedAt" \in DOMAIN obj
    THEN obj
    ELSE [paymentIntentId |-> obj.paymentIntentId, sessionId |-> obj.sessionId,
          status |-> obj.status, createdAt |-> obj.createdAt, updatedAt |-> Undefined]

EmptyStore == [k \in {} |-> Null]

AbsentFile == [kind |-> "absent", entries |-> <<>>]
CorruptFile == [kind |-> "corrupt", entries |-> <<>>]

\* JSON.stringify(paymentsStore): the entries in property order
Stringify(ps, order) ==
  [kind |-> "json",
   entries |-> [i \in 1..Len(order) |-> <<order[i], RecordToJSON(ps[order[i]])>>]]

\* mutant: what can be read of a corrupt file is taken for a record
loadPayments_Garbled(file) ==
  IF file.kind = "absent"
    THEN EmptyStore
    ELSE [k \in {"job-1"} |->
            [paymentIntentId |-> Null, sessionId |-> Null, status |-> "authorized",
             createdAt |-> 0, updatedAt |-> Undefined]]

\* loadPayments: the ledger a process starts with, given the file
loadPayments(file) ==
  IF file.kind = "json"
    THEN [k \in {file.entries[i][1] : i \in 1..Len(file.entries)} |->
            RecordFromJSON((CHOOSE e \in {file.entries[i] : i \in 1..Len(file.entries)} :
                              e[1] = k)[2])]
    ELSE EmptyStore

loadOrder(file) ==
  IF file.kind = "json"
    THEN [i \in 1..Len(file.entries) |-> file.entries[i][1]]
    ELSE <<>>

\* mutant: the write is skipped
savePayments_NotFlushed(ps, order, file, w) == file

\* savePayments: the file after the write attempt
savePayments(ps, order, file, w) ==
  CASE w = "ok" -> Stringify(ps, order)
    [] w = "unchanged" -> file
    [] w = "truncated" -> CorruptFile

\* mutant: an existing record is replaced
recordPayment_Overwrites(ps, jobId, paymentIntentId, sessionId, t) ==
  Put(ps, jobId, [paymentIntentId |-> paymentIntentId, sessionId |-> sessionId,
                  status |-> "authorized", createdAt |-> t,
                  updatedAt |-> Undefined])

recordPayment(ps, jobId, paymentIntentId, sessionId, t) ==
  IF Has(ps, jobId)
    THEN ps
    ELSE Put(ps, jobId, [paymentIntentId |-> paymentIntentId, sessionId |-> sessionId,
                         status |-> "authorized", createdAt |-> t,
                         updatedAt |-> Undefined])

\* mutant: a status update for a job without record creates the record
markJobStatus_Creates(ps, jobId, status, t) ==
  IF ~Has(ps, jobId)
    THEN Put(ps, jobId, [paymentIntentId |-> Null, sessionId |-> Null,
                         status |-> status, createdAt |-> t,
                         updatedAt |-> Stamp])
    ELSE Put(ps, jobId, [ps[jobId] EXCEPT !.status = status, !.updatedAt = Stamp])

\* mutant: a status update stamps createdAt as well
markJobStatus_Restamps(ps, jobId, status, t) ==
  IF ~Has(ps, jobId)
    THEN ps
    ELSE Put(ps, jobId, [ps[jobId] EXCEPT !.status = status, !.updatedAt = Stamp,
                                          !.createdAt = t])

markJobStatus(ps, jobId, status, t) ==
  IF ~Has(ps, jobId)
    THEN ps
    ELSE Put(ps, jobId, [ps[jobId] EXCEPT !.status = status, !.updatedAt = Stamp])

\* mutant: the webhook does not look for a placeholder
getPendingJobStatus_Never(ps, jobId) == Null

getPendingJobStatus(ps, jobId) ==
  IF ~Has(ps, jobId) THEN Null
  ELSE IF ps[jobId].status \in {"render_succeeded", "render_failed"}
    THEN ps[jobId].status
    ELSE Null

\* mutant: the placeholder is created in authorized
recordJobCompletion_AsAuthorized(ps, jobId, renderStatus, t) ==
  IF ~Has(ps, jobId)
    THEN Put(ps, jobId, [paymentIntentId |-> Null, sessionId |-> Null,
                         status |-> "authorized", createdAt |-> t,
                         updatedAt |-> Undefined])
    ELSE markJobStatus(ps, jobId, renderStatus, t)

\* mutant: an outcome for a job without record is dropped
recordJobCompletion_Dropped(ps, jobId, renderStatus, t) ==
  IF ~Has(ps, jobId) THEN ps ELSE markJobStatus(ps, jobId, renderStatus, t)

\* mutant: a placeholder keeps the outcome it was created with
recordJobCompletion_KeepsFirst(ps, jobId, renderStatus, t) ==
  IF ~Has(ps, jobId)
    THEN Put(ps, jobId, [paymentIntentId |-> Null, sessionId |-> Null,
                         status |-> renderStatus, createdAt |-> t,
                         updatedAt |-> Undefined])
    ELSE IF ps[jobId].paymentIntentId = Null
      THEN ps
      ELSE markJobStatus(ps, jobId, renderStatus, t)

recordJobCompletion(ps, jobId, renderStatus, t) ==
  IF ~Has(ps, jobId)
    THEN Put(ps, jobId, [paymentIntentId |-> Null, sessionId |-> Null,
                         status |-> renderStatus, createdAt |-> t,
                         updatedAt |-> Undefined])
    ELSE markJobStatus(ps, jobId, renderStatus, t)

\* the key order after a step: a jobId that became present is appended
OrderAfter(order, ps2) ==
  IF Cardinality(DOMAIN ps2) = Len(order)
    THEN order
    ELSE Append(order, CHOOSE j \in DOMAIN ps2 : \A i \in 1..Len(order) : order[i] # j)

\* ------------------------------------------------------- capture / cancel
\* mutant: capture is refused once the status is render_succeeded
capturePaymentCalls_AuthorizedOnly(ps, jobId) ==
  /\ Has(ps, jobId)
  /\ ps[jobId].paymentIntentId # Null
  /\ ps[jobId].status = "authorized"

\* mutant: capture is always refused
capturePaymentCalls_Never(ps, jobId) == FALSE

\* mutant: capture does not look at the reference
capturePaymentCalls_NoReferenceCheck(ps, jobId) ==
  /\ Has(ps, jobId)
  /\ ps[jobId].status # "captured"
  /\ ps[jobId].status \in {"authorized", "render_succeeded"}

\* capturePayment up to its await: TRUE when it goes on to call Stripe
capturePaymentCalls(ps, jobId) ==
  /\ Has(ps, jobId)
  /\ ps[jobId].paymentIntentId # Null
  /\ ps[jobId].status # "captured"
  /\ ps[jobId].status \in {"authorized", "render_succeeded"}

\* mutant: cancel is refused once the status is render_failed
cancelPaymentCalls_AuthorizedOnly(ps, jobId) ==
  /\ Has(ps, jobId)
  /\ ps[jobId].paymentIntentId # Null
  /\ ps[jobId].status = "authorized"

\* cancelPayment up to its await: TRUE when it goes on to call Stripe
cancelPaymentCalls(ps, jobId) ==
  /\ Has(ps, jobId)
  /\ ps[jobId].paymentIntentId # Null
  /\ ps[jobId].status # "canceled"
  /\ ps[jobId].status \in {"authorized", "render_failed"}

\* what Stripe answers a capture or a cancel: done, an error saying that the
\* payment is already captured / canceled, or another error
StripeAnswers == {"done", "already_done", "error"}

\* await stripe.paymentIntents.<op>(ref) inside try: the call returns for
\* "done" and throws for every error answer, whatever the error says
Resolves(answer) == answer = "done"

\* mutant: a Stripe error is taken for success
SettledStatus_ErrorIgnored(op, ok) ==
  IF op = "capture" THEN "captured" ELSE "canceled"

\* the status capturePayment / cancelPayment write when the Stripe call settles
SettledStatus(op, ok) ==
  IF op = "capture"
    THEN (IF ok THEN "captured" ELSE "capture_failed")
    ELSE (IF ok THEN "canceled" ELSE "cancel_failed")

\* the calls Stripe can be sent: paymentIntents.<op>(ref) on behalf of a job
CallKeys == Jobs \X Ops \X (Refs \cup {Null})
RECURSIVE SumCalls(_, _)
SumCalls(calls, keys) ==
  IF keys = {} THEN 0
  ELSE LET k == CHOOSE x \in keys : TRUE
       IN calls[k] + SumCalls(calls, keys \ {k})
TotalCalls == SumCalls(stripeCalls, {k \in CallKeys : stripeCalls[k] > 0})

Issue(calls, jobId, op, ref) == [calls EXCEPT ![<<jobId, op, ref>>] = @ + 1]

NoCalls == [k \in CallKeys |-> 0]
NoneInFlight == [k \in Jobs \X Ops |-> 0]

\* what POST /animate_photo answers: res.status(status).json({ error }), or
\* res.json({ ok: true, watermarked }) with status 200
Response(status, error, watermarked) ==
  [status |-> status, error |-> error, watermarked |-> watermarked]

\* the request has not been answered
NoResponse == Response(0, "none", FALSE)

\* no request to POST /animate_photo is being served. notices: the outcomes
\* the request has handed to handleJobCompletion; awaits / pending: the
\* Stripe call its handleJobCompletion awaits and the answer it sends after
\* it; downloaded: downloadToFile has resolved
NoRequest ==
  [pc |-> "idle", jobId |-> Null, notices |-> <<>>, polls |-> 0,
   downloaded |-> FALSE, awaits |-> Null, pending |-> NoResponse,
   response |-> NoResponse]

InitServer ==
  /\ disk \in {AbsentFile, CorruptFile, Stringify(EmptyStore, <<>>)}
  /\ paymentsStore = loadPayments(disk)
  /\ keyOrder = loadOrder(disk)
  /\ now = 0
  /\ inFlight = NoneInFlight
  /\ sweeps = <<>>
  /\ stripeCalls = NoCalls
  /\ writeFailed = FALSE
  /\ delivered = [j \in Jobs |-> <<>>]
  /\ restarted = FALSE
  /\ succeeded = {}
  /\ unverified = FALSE
  /\ rejected = FALSE
  /\ animate = NoRequest

\* the server starts with a webhook secret configured
Init ==
  /\ InitServer
  /\ STRIPE_WEBHOOK_SECRET = "whsec"

\* ----------------------------------------------------------------- steps
\* mutant: a failed write undoes the mutation
Commit_RollsBack(ps2, saved, w) ==
  IF saved /\ w # "ok"
    THEN /\ UNCHANGED <<paymentsStore, keyOrder>>
         /\ disk' = savePayments(ps2, OrderAfter(keyOrder, ps2), disk, w)
         /\ writeFailed' = TRUE
    ELSE /\ paymentsStore' = ps2
         /\ keyOrder' = OrderAfter(keyOrder, ps2)
         /\ IF saved
              THEN /\ disk' = savePayments(ps2, OrderAfter(keyOrder, ps2), disk, w)
                   /\ writeFailed' = writeFailed
              ELSE UNCHANGED <<disk, writeFailed>>

\* mutant: records that are canceled are taken out of the ledger
Commit_Evicts(ps2, saved, w) ==
  LET kept == {j \in DOMAIN ps2 : ps2[j].status # "canceled"}
      ps3 == [j \in kept |-> ps2[j]]
      order == SelectSeq(OrderAfter(keyOrder, ps2), LAMBDA j : j \in kept)
  IN /\ paymentsStore' = ps3
     /\ keyOrder' = order
     /\ IF saved
          THEN /\ disk' = savePayments(ps3, order, disk, w)
               /\ writeFailed' = (writeFailed \/ w # "ok")
          ELSE /\ w = "ok"
               /\ UNCHANGED <<disk, writeFailed>>

\* the ledger, its key order and the file after a synchronous run that left
\* the ledger as ps2; saved: the run called savePayments
Commit(ps2, saved, w) ==
  /\ paymentsStore' = ps2
  /\ keyOrder' = OrderAfter(keyOrder, ps2)
  /\ IF saved
       THEN /\ disk' = savePayments(ps2, OrderAfter(keyOrder, ps2), disk, w)
            /\ writeFailed' = (writeFailed \/ w # "ok")
       ELSE /\ w = "ok"
            /\ UNCHANGED <<disk, writeFailed>>

\* the handler goes on to await stripe.paymentIntents.<op>(ref)
Await(ps2, jobId, op) ==
  /\ TotalCalls < MaxCalls
  /\ stripeCalls' = Issue(stripeCalls, jobId, op, ps2[jobId].paymentIntentId)
  /\ inFlight' = [inFlight EXCEPT ![<<jobId, op>>] = @ + 1]

\* webhook, case "checkout.session.completed"
CheckoutSessionCompleted(jobId, paymentIntentId, sessionId, w) ==
  LET pendingStatus == getPendingJobStatus(paymentsStore, jobId)
      attached == Put(paymentsStore, jobId,
                      [paymentsStore[jobId] EXCEPT !.paymentIntentId = paymentIntentId,
                                                   !.sessionId = sessionId])
      recorded == recordPayment(paymentsStore, jobId, paymentIntentId, sessionId, now)
  IN /\ UNCHANGED <<now, sweeps>>
     /\ IF jobId = Null \/ paymentIntentId = Null
          THEN /\ w = "ok"
               /\ UNCHANGED <<paymentsStore, keyOrder, disk, writeFailed,
                              inFlight, stripeCalls>>
          ELSE IF pendingStatus # Null
            THEN /\ Commit(attached, TRUE, w)
                 /\ IF pendingStatus = "render_succeeded"
                      THEN IF capturePaymentCalls(attached, jobId)
                             THEN Await(attached, jobId, "capture")
                             ELSE UNCHANGED <<inFlight, stripeCalls>>
                      ELSE IF cancelPaymentCalls(attached, jobId)
                             THEN Await(attached, jobId, "cancel")
                             ELSE UNCHANGED <<inFlight, stripeCalls>>
            ELSE /\ Commit(recorded, ~Has(paymentsStore, jobId), w)
                 /\ UNCHANGED <<inFlight, stripeCalls>>

\* webhook, case "checkout.session.async_payment_failed"
AsyncPaymentFailed(jobId, w) ==
  /\ UNCHANGED <<now, sweeps, inFlight, stripeCalls>>
  /\ IF jobId = Null
       THEN /\ w = "ok"
            /\ UNCHANGED <<paymentsStore, keyOrder, disk, writeFailed>>
       ELSE Commit(markJobStatus(paymentsStore, jobId, "payment_failed", now),
                   Has(paymentsStore, jobId), w)

\* mutant: every outcome is taken for a success
handleJobCompletion_AlwaysSucceeded(jobId, success, w) ==
  LET placed == recordJobCompletion(paymentsStore, jobId, "render_succeeded", now)
      marked == markJobStatus(paymentsStore, jobId, "render_succeeded", now)
  IN /\ UNCHANGED <<now, sweeps>>
     /\ IF ~Has(paymentsStore, jobId) \/ paymentsStore[jobId].paymentIntentId = Null
          THEN /\ Commit(placed, TRUE, w)
               /\ UNCHANGED <<inFlight, stripeCalls>>
          ELSE /\ Commit(marked, TRUE, w)
               /\ IF capturePaymentCalls(marked, jobId)
                    THEN Await(marked, jobId, "capture")
                    ELSE UNCHANGED <<inFlight, stripeCalls>>

\* handleJobCompletion, up to its await or its return
handleJobCompletion(jobId, success, w) ==
  LET renderStatus == IF success THEN "render_succeeded" ELSE "render_failed"
      placed == recordJobCompletion(paymentsStore, jobId, renderStatus, now)
      marked == markJobStatus(paymentsStore, jobId, renderStatus, now)
  IN /\ UNCHANGED <<now, sweeps>>
     /\ IF ~Has(paymentsStore, jobId) \/ paymentsStore[jobId].paymentIntentId = Null
          THEN /\ Commit(placed, TRUE, w)
               /\ UNCHANGED <<inFlight, stripeCalls>>
          ELSE /\ Commit(marked, TRUE, w)
               /\ IF success
                    THEN IF capturePaymentCalls(marked, jobId)
                           THEN Await(marked, jobId, "capture")
                           ELSE UNCHANGED <<inFlight, stripeCalls>>
                    ELSE IF cancelPaymentCalls(marked, jobId)
                           THEN Await(marked, jobId, "cancel")
                           ELSE UNCHANGED <<inFlight, stripeCalls>>

\* what POST /stripe/webhook answers an event it has handled, the ledger
\* being ps when the handler ends
WebhookResponse(ps) == [status |-> 200, received |-> TRUE]

\* what POST /jobs/:jobId/complete answers, the ledger being ps when
\* handleJobCompletion has returned
CompleteResponse(ps, jobId) ==
  [status |-> 200, ok |-> TRUE, jobId |-> jobId,
   paymentStatus |-> (IF Has(ps, jobId) THEN ps[jobId].status ELSE "unknown")]

\* capturePayment / cancelPayment called by a notice handler, from the
\* settling of the Stripe call to the handler's end
StripeSettles(jobId, op, ok, w) ==
  /\ inFlight[<<jobId, op>>] > 0
  /\ inFlight' = [inFlight EXCEPT ![<<jobId, op>>] = @ - 1]
  /\ Commit(markJobStatus(paymentsStore, jobId, SettledStatus(op, ok), now),
            Has(paymentsStore, jobId), w)
  /\ UNCHANGED <<now, sweeps, stripeCalls>>

\* mutant: the loop ends (break for continue) at the first record it skips
SweepScan_Breaks(ps, rest, t0) ==
  IF rest = <<>> THEN <<>>
  ELSE IF /\ ps[Head(rest)].status = "authorized"
          /\ t0 - ps[Head(rest)].createdAt > AUTHORIZATION_TIMEOUT_MS
          /\ ps[Head(rest)].paymentIntentId # Null
         THEN rest
         ELSE <<>>

\* mutant: the loop does not look at the status
RECURSIVE SweepScan_AnyStatus(_, _, _)
SweepScan_AnyStatus(ps, rest, t0) ==
  IF rest = <<>> THEN <<>>
  ELSE IF /\ t0 - ps[Head(rest)].createdAt > AUTHORIZATION_TIMEOUT_MS
          /\ ps[Head(rest)].paymentIntentId # Null
         THEN rest
         ELSE SweepScan_AnyStatus(ps, Tail(rest), t0)

\* mutant: a record is taken up as soon as its age reaches the timeout
RECURSIVE SweepScan_AtTimeout(_, _, _)
SweepScan_AtTimeout(ps, rest, t0) ==
  IF rest = <<>> THEN <<>>
  ELSE IF /\ ps[Head(rest)].status = "authorized"
          /\ t0 - ps[Head(rest)].createdAt >= AUTHORIZATION_TIMEOUT_MS
          /\ cancelPaymentCalls(ps, Head(rest))
         THEN rest
         ELSE SweepScan_AtTimeout(ps, Tail(rest), t0)

\* mutant: the loop also takes up records in cancel_failed
RECURSIVE SweepScan_RetriesFailed(_, _, _)
SweepScan_RetriesFailed(ps, rest, t0) ==
  IF rest = <<>> THEN <<>>
  ELSE IF /\ ps[Head(rest)].status \in {"authorized", "cancel_failed"}
          /\ t0 - ps[Head(rest)].createdAt > AUTHORIZATION_TIMEOUT_MS
          /\ ps[Head(rest)].paymentIntentId # Null
         THEN rest
         ELSE SweepScan_RetriesFailed(ps, Tail(rest), t0)

\* the sweep loop from the entries `rest` on, up to its next await: what is
\* left of `rest` when it suspends on the cancel of Head, <<>> when it ends
RECURSIVE SweepScan(_, _, _)
SweepScan(ps, rest, t0) ==
  IF rest = <<>> THEN <<>>
  ELSE LET jobId == Head(rest)
       IN IF /\ ps[jobId].status = "authorized"
             /\ t0 - ps[jobId].createdAt > AUTHORIZATION_TIMEOUT_MS
             /\ cancelPaymentCalls(ps, jobId)
            THEN rest
            ELSE SweepScan(ps, Tail(rest), t0)

\* cleanupStuckAuthorizations, from the timer to its first await or its end
cleanupStuckAuthorizations ==
  LET rest == SweepScan(paymentsStore, keyOrder, now)
  IN /\ Len(sweeps) < MaxSweeps
     /\ UNCHANGED <<paymentsStore, keyOrder, disk, writeFailed, now, inFlight>>
     /\ IF rest = <<>>
          THEN UNCHANGED <<sweeps, stripeCalls>>
          ELSE /\ TotalCalls < MaxCalls
               /\ stripeCalls' = Issue(stripeCalls, Head(rest), "cancel",
                                       paymentsStore[Head(rest)].paymentIntentId)
               /\ sweeps' = Append(sweeps, [now |-> now, rest |-> rest])

RemoveAt(seq, i) == [k \in 1..(Len(seq) - 1) |-> IF k < i THEN seq[k] ELSE seq[k + 1]]

\* mutant: a failed cancel ends the pass
SweepResumes_AbortsOnFailure(i, ok, w) ==
  LET jobId == Head(sweeps[i].rest)
      marked == markJobStatus(paymentsStore, jobId, SettledStatus("cancel", ok), now)
      rest == IF ok THEN SweepScan(marked, Tail(sweeps[i].rest), sweeps[i].now) ELSE <<>>
  IN /\ i \in 1..Len(sweeps)
     /\ Commit(marked, Has(paymentsStore, jobId), w)
     /\ UNCHANGED <<now, inFlight>>
     /\ IF rest = <<>>
          THEN /\ sweeps' = RemoveAt(sweeps, i)
               /\ UNCHANGED stripeCalls
          ELSE /\ TotalCalls < MaxCalls
               /\ stripeCalls' = Issue(stripeCalls, Head(rest), "cancel",
                                       marked[Head(rest)].paymentIntentId)
               /\ sweeps' = [sweeps EXCEPT ![i].rest = rest]

\* cleanupStuckAuthorizations, from the settling of the cancel it awaits to
\* its next await or its end
SweepResumes(i, ok, w) ==
  LET jobId == Head(sweeps[i].rest)
      marked == markJobStatus(paymentsStore, jobId, SettledStatus("cancel", ok), now)
      rest == SweepScan(marked, Tail(sweeps[i].rest), sweeps[i].now)
  IN /\ i \in 1..Len(sweeps)
     /\ Commit(marked, Has(paymentsStore, jobId), w)
     /\ UNCHANGED <<now, inFlight>>
     /\ IF rest = <<>>
          THEN /\ sweeps' = RemoveAt(sweeps, i)
               /\ UNCHANGED stripeCalls
          ELSE /\ TotalCalls < MaxCalls
               /\ stripeCalls' = Issue(stripeCalls, Head(rest), "cancel",
                                       marked[Head(rest)].paymentIntentId)
               /\ sweeps' = [sweeps EXCEPT ![i].rest = rest]

Tick ==
  /\ now < MaxTime
  /\ now' = now + 1
  /\ UNCHANGED <<paymentsStore, keyOrder, disk, inFlight, sweeps, stripeCalls, writeFailed>>

\* the process stops, with whatever it was awaiting, and starts again
Restart ==
  /\ paymentsStore' = loadPayments(disk)
  /\ keyOrder' = loadOrder(disk)
  /\ inFlight' = NoneInFlight
  /\ sweeps' = <<>>
  /\ writeFailed' = FALSE
  /\ UNCHANGED <<disk, now, stripeCalls>>

\* ------------------------------------------------- the server, storage reliable
AuthorizationNotice ==
  /\ \E session \in CheckoutSessions :
       CheckoutSessionCompleted(session.jobId, session.payment_intent, session.id, "ok")
  /\ UNCHANGED scenario

PaymentFailureNotice ==
  /\ \E session \in CheckoutSessions : AsyncPaymentFailed(session.jobId, "ok")
  /\ UNCHANGED scenario

OutcomeNotice ==
  /\ \E jobId \in Jobs, success \in BOOLEAN : handleJobCompletion(jobId, success, "ok")
  /\ UNCHANGED scenario

NoticeSettles ==
  /\ \E jobId \in Jobs, op \in Ops, ok \in BOOLEAN : StripeSettles(jobId, op, ok, "ok")
  /\ UNCHANGED scenario

SweepStarts ==
  /\ cleanupStuckAuthorizations
  /\ UNCHANGED scenario

SweepSettles ==
  /\ \E i \in 1..Len(sweeps), ok \in BOOLEAN : SweepResumes(i, ok, "ok")
  /\ UNCHANGED scenario

ClockTicks ==
  /\ Tick
  /\ UNCHANGED scenario

ProcessRestarts ==
  /\ Restart
  /\ UNCHANGED scenario

Next ==
  \/ AuthorizationNotice
  \/ PaymentFailureNotice
  \/ OutcomeNotice
  \/ NoticeSettles
  \/ SweepStarts
  \/ SweepSettles
  \/ ClockTicks
  \/ ProcessRestarts

Spec == Init /\ [][Next]_vars

\* ------------------- one authorization notice and one outcome notice per job
\* Each job gets at most one authorization notice and at most one outcome
\* notice, in either order, and Stripe answers every call with success.
Outcome(success) == IF success THEN "succ" ELSE "fail"
Got(jobId, what) == \E i \in 1..Len(delivered[jobId]) : delivered[jobId][i] = what

PairAuthorization ==
  \E session \in CheckoutSessions :
    /\ session.jobId # Null
    /\ session.payment_intent # Null
    /\ ~Got(session.jobId, "auth")
    /\ CheckoutSessionCompleted(session.jobId, session.payment_intent, session.id, "ok")
    /\ delivered' = [delivered EXCEPT ![session.jobId] = Append(@, "auth")]
    /\ UNCHANGED <<restarted, succeeded, webhook, animate>>

PairOutcome ==
  \E jobId \in Jobs, success \in BOOLEAN :
    /\ ~Got(jobId, "succ")
    /\ ~Got(jobId, "fail")
    /\ handleJobCompletion(jobId, success, "ok")
    /\ delivered' = [delivered EXCEPT ![jobId] = Append(@, Outcome(success))]
    /\ UNCHANGED <<restarted, succeeded, webhook, animate>>

PairSettles ==
  /\ \E jobId \in Jobs, op \in Ops : StripeSettles(jobId, op, TRUE, "ok")
  /\ UNCHANGED scenario

NextPair ==
  \/ PairAuthorization
  \/ PairOutcome
  \/ PairSettles

SpecPair == Init /\ [][NextPair]_vars

\* ------------------------------- one job, fair sweeping, Stripe always answers
\* The notices of one job, with the sweep timer firing, every awaited Stripe
\* call settling and the clock advancing (weak fairness), and the process
\* restarting at most once.
LiveJob == "job-1"

LiveAuthorization ==
  /\ \E session \in CheckoutSessions :
       /\ session.jobId = LiveJob
       /\ CheckoutSessionCompleted(session.jobId, session.payment_intent, session.id, "ok")
  /\ UNCHANGED scenario

LivePaymentFailure ==
  /\ AsyncPaymentFailed(LiveJob, "ok")
  /\ UNCHANGED scenario

LiveOutcome ==
  /\ \E success \in BOOLEAN : handleJobCompletion(LiveJob, success, "ok")
  /\ UNCHANGED scenario

LiveRestart ==
  /\ ~restarted
  /\ Restart
  /\ restarted' = TRUE
  /\ UNCHANGED <<delivered, succeeded, webhook, animate>>

NextLive ==
  \/ LiveAuthorization
  \/ LivePaymentFailure
  \/ LiveOutcome
  \/ NoticeSettles
  \/ SweepStarts
  \/ SweepSettles
  \/ ClockTicks
  \/ LiveRestart

SpecLive ==
  /\ Init
  /\ [][NextLive]_vars
  /\ WF_vars(SweepStarts)
  /\ WF_vars(SweepSettles)
  /\ WF_vars(NoticeSettles)
  /\ WF_vars(ClockTicks)

\* ---------------------------------------- the server, writes that can fail
\* Every write of payments.json either succeeds, leaves the file as it was,
\* or leaves a truncated file. The notices are those of one job.
FaultyAuthorization ==
  /\ \E session \in CheckoutSessions, w \in WriteOutcomes :
       /\ session.jobId \in {LiveJob, Null}
       /\ CheckoutSessionCompleted(session.jobId, session.payment_intent, session.id, w)
  /\ UNCHANGED scenario

FaultyPaymentFailure ==
  /\ \E w \in WriteOutcomes : AsyncPaymentFailed(LiveJob, w)
  /\ UNCHANGED scenario

FaultyOutcome ==
  /\ \E success \in BOOLEAN, w \in WriteOutcomes : handleJobCompletion(LiveJob, success, w)
  /\ UNCHANGED scenario

FaultySettles ==
  /\ \E jobId \in Jobs, op \in Ops, ok \in BOOLEAN, w \in WriteOutcomes :
       StripeSettles(jobId, op, ok, w)
  /\ UNCHANGED scenario

FaultySweepSettles ==
  /\ \E i \in 1..Len(sweeps), ok \in BOOLEAN, w \in WriteOutcomes : SweepResumes(i, ok, w)
  /\ UNCHANGED scenario

NextFaulty ==
  \/ FaultyAuthorization
  \/ FaultyPaymentFailure
  \/ FaultyOutcome
  \/ FaultySettles
  \/ SweepStarts
  \/ FaultySweepSettles
  \/ ClockTicks
  \/ ProcessRestarts

SpecFaulty == Init /\ [][NextFaulty]_vars

\* --------------------------------- the server, success outcomes remembered
\* The server as in Spec, with the jobs for which a success outcome notice
\* was received; no job has a second checkout session with another reference.
OneSessionPerJob ==
  {session \in CheckoutSessions : session.payment_intent \in {Null, "pi_1", "pi_2"}}

OutcomesAuthorization ==
  /\ \E session \in OneSessionPerJob :
       CheckoutSessionCompleted(session.jobId, session.payment_intent, session.id, "ok")
  /\ UNCHANGED scenario

OutcomeReceived ==
  \E jobId \in Jobs, success \in BOOLEAN :
    /\ handleJobCompletion(jobId, success, "ok")
    /\ succeeded' = (IF success THEN succeeded \cup {jobId} ELSE succeeded)
    /\ UNCHANGED <<delivered, restarted, webhook, animate>>

NextOutcomes ==
  \/ OutcomesAuthorization
  \/ PaymentFailureNotice
  \/ OutcomeReceived
  \/ NoticeSettles
  \/ SweepStarts
  \/ SweepSettles
  \/ ClockTicks
  \/ ProcessRestarts

SpecOutcomes == Init /\ [][NextOutcomes]_vars

\* -------------------------------------------- the server, one process run
\* The server as in Spec, from its start and without restart.
NextRun ==
  \/ AuthorizationNotice
  \/ PaymentFailureNotice
  \/ OutcomeNotice
  \/ NoticeSettles
  \/ SweepStarts
  \/ SweepSettles
  \/ ClockTicks

SpecRun == Init /\ [][NextRun]_vars

\* ------------------------------- the webhook endpoint, signed or unsigned events
\* The secret may be configured or not, and a request carries an event whose
\* signature is valid for the secret or not.
\* "payment_intent.created" stands for every type the switch has no case for
EventTypes == {"checkout.session.completed", "checkout.session.async_payment_succeeded",
               "checkout.session.async_payment_failed", "payment_intent.created"}

\* the switch on event.type, up to the handler's await or its end
WebhookSwitch(type, session, w) ==
  IF type = "checkout.session.completed"
    THEN CheckoutSessionCompleted(session.jobId, session.payment_intent, session.id, w)
  ELSE IF type = "checkout.session.async_payment_failed"
    THEN AsyncPaymentFailed(session.jobId, w)
  ELSE /\ w = "ok"
       /\ UNCHANGED <<paymentsStore, keyOrder, disk, now, inFlight, sweeps,
                      stripeCalls, writeFailed>>

EventAccepted_Unchecked(secret, signed) == TRUE

\* whether the request gets past the try block to the switch on event.type:
\* constructEvent throws on a signature that is not valid for the secret, and
\* without a secret the body is parsed as it is
EventAccepted(secret, signed) ==
  IF secret # Null THEN signed ELSE TRUE

InitWebhook ==
  /\ InitServer
  /\ STRIPE_WEBHOOK_SECRET \in {Null, "whsec"}

\* POST /stripe/webhook
WebhookRequest(type, session, signed, w) ==
  IF EventAccepted(STRIPE_WEBHOOK_SECRET, signed)
    THEN /\ WebhookSwitch(type, session, w)
         /\ unverified' = (\/ unverified
                           \/ /\ ~signed
                              /\ \/ paymentsStore' # paymentsStore
                                 \/ stripeCalls' # stripeCalls)
         /\ UNCHANGED <<STRIPE_WEBHOOK_SECRET, rejected>>
    ELSE /\ rejected' = TRUE
         /\ UNCHANGED <<paymentsStore, keyOrder, disk, now, inFlight, sweeps,
                        stripeCalls, writeFailed, STRIPE_WEBHOOK_SECRET, unverified>>

WebhookEvent(type, session, signed) ==
  /\ WebhookRequest(type, session, signed, "ok")
  /\ UNCHANGED <<delivered, restarted, succeeded, animate>>

WebhookAuthorization ==
  \E session \in CheckoutSessions, signed \in BOOLEAN :
    WebhookEvent("checkout.session.completed", session, signed)

WebhookPaymentFailure ==
  \E session \in CheckoutSessions, signed \in BOOLEAN :
    WebhookEvent("checkout.session.async_payment_failed", session, signed)

WebhookOther ==
  \E type \in {"checkout.session.async_payment_succeeded", "payment_intent.created"},
     session \in CheckoutSessions, signed \in BOOLEAN :
    WebhookEvent(type, session, signed)

NextWebhook ==
  \/ WebhookAuthorization
  \/ WebhookPaymentFailure
  \/ WebhookOther
  \/ OutcomeNotice
  \/ NoticeSettles

SpecWebhook == InitWebhook /\ [][NextWebhook]_vars

\* ----------------------------------------- several notices per job, in any order
\* Each job gets up to MaxNotices notices: authorizations (of its one
\* checkout session), payment failures and outcomes, in any order and
\* repeated; `delivered` keeps their order.
RepeatedAuthorization ==
  \E session \in OneSessionPerJob :
    /\ session.jobId # Null
    /\ session.payment_intent # Null
    /\ Len(delivered[session.jobId]) < MaxNotices
    /\ CheckoutSessionCompleted(session.jobId, session.payment_intent, session.id, "ok")
    /\ delivered' = [delivered EXCEPT ![session.jobId] = Append(@, "auth")]
    /\ UNCHANGED <<restarted, succeeded, webhook, animate>>

RepeatedPaymentFailure ==
  \E jobId \in Jobs :
    /\ Len(delivered[jobId]) < MaxNotices
    /\ AsyncPaymentFailed(jobId, "ok")
    /\ delivered' = [delivered EXCEPT ![jobId] = Append(@, "pfail")]
    /\ UNCHANGED <<restarted, succeeded, webhook, animate>>

RepeatedOutcome ==
  \E jobId \in Jobs, success \in BOOLEAN :
    /\ Len(delivered[jobId]) < MaxNotices
    /\ handleJobCompletion(jobId, success, "ok")
    /\ delivered' = [delivered EXCEPT ![jobId] = Append(@, Outcome(success))]
    /\ UNCHANGED <<restarted, succeeded, webhook, animate>>

NextRepeated ==
  \/ RepeatedAuthorization
  \/ RepeatedPaymentFailure
  \/ RepeatedOutcome
  \/ NoticeSettles

SpecRepeated == Init /\ [][NextRepeated]_vars

\* --------------------------------------------- POST /animate_photo, one paid job
\* One request at a time is served, for LiveJob or without jobId; the Kling
\* API, the download and the watermarking answer in every way they can.
\* Authorization notices for LiveJob arrive at any time.
server == <<paymentsStore, keyOrder, disk, now, inFlight, sweeps, stripeCalls, writeFailed>>

Unexpected == "Unexpected error in /animate_photo."

\* mutant: the validation errors answer 400 without an outcome notice
Notify_NotOnBadRequest(a, success, response) ==
  IF a.jobId = Null \/ response.status = 400
    THEN /\ animate' = [a EXCEPT !.pc = "done", !.response = response]
         /\ UNCHANGED server
    ELSE /\ handleJobCompletion(a.jobId, success, "ok")
         /\ LET op == IF success THEN "capture" ELSE "cancel"
                awaited == inFlight'[<<a.jobId, op>>] > inFlight[<<a.jobId, op>>]
            IN animate' = [a EXCEPT !.notices = Append(@, Outcome(success)),
                                    !.pc = IF awaited THEN "settling" ELSE "done",
                                    !.awaits = IF awaited THEN op ELSE Null,
                                    !.pending = IF awaited THEN response ELSE NoResponse,
                                    !.response = IF awaited THEN NoResponse ELSE response]

\* `if (isPaidJob) { await handleJobCompletion(jobId, success); }` followed
\* by the response, up to the Stripe call handleJobCompletion awaits or, when
\* it awaits none, to the response; a: the request so far
Notify(a, success, response) ==
  IF a.jobId = Null
    THEN /\ animate' = [a EXCEPT !.pc = "done", !.response = response]
         /\ UNCHANGED server
    ELSE /\ handleJobCompletion(a.jobId, success, "ok")
         /\ LET op == IF success THEN "capture" ELSE "cancel"
                awaited == inFlight'[<<a.jobId, op>>] > inFlight[<<a.jobId, op>>]
            IN animate' = [a EXCEPT !.notices = Append(@, Outcome(success)),
                                    !.pc = IF awaited THEN "settling" ELSE "done",
                                    !.awaits = IF awaited THEN op ELSE Null,
                                    !.pending = IF awaited THEN response ELSE NoResponse,
                                    !.response = IF awaited THEN NoResponse ELSE response]

\* the handler from its start to the fetch that creates the Kling job
AnimateRequest ==
  /\ animate.pc \in {"idle", "done"}
  /\ \E jobId \in {LiveJob, Null}, problem \in {"no-key", "no-image", "no-prompt", "none"} :
       LET a == [NoRequest EXCEPT !.jobId = jobId, !.pc = "creating"]
       IN IF problem = "no-key"
            THEN Notify(a, FALSE, Response(500, "Kling API key missing.", FALSE))
          ELSE IF problem = "no-image"
            THEN Notify(a, FALSE, Response(400, "No image data provided (imageBase64 missing)", FALSE))
          ELSE IF problem = "no-prompt"
            THEN Notify(a, FALSE, Response(400, "No prompt provided for animation", FALSE))
          ELSE /\ animate' = a
               /\ UNCHANGED server
  /\ UNCHANGED <<delivered, restarted, succeeded, webhook>>

\* the create fetch settles: it rejects, answers with an error status, or
\* answers with a video URL, with a generation id, or with neither
CreateAnswers ==
  /\ animate.pc = "creating"
  /\ \E answer \in {"rejected", "not-ok", "video", "id", "nothing"} :
       IF answer = "rejected"
         THEN Notify(animate, FALSE, Response(500, Unexpected, FALSE))
       ELSE IF answer = "not-ok"
         THEN Notify(animate, FALSE, Response(500, "Failed to create Kling generation job.", FALSE))
       ELSE IF answer = "nothing"
         THEN Notify(animate, FALSE,
                     Response(500, "Kling did not return a video URL or generation ID.", FALSE))
       ELSE /\ animate' = [animate EXCEPT !.pc = IF answer = "video" THEN "downloading"
                                                                      ELSE "polling"]
            /\ UNCHANGED server
  /\ UNCHANGED <<delivered, restarted, succeeded, webhook>>

\* one turn of the polling loop: the status fetch rejects, answers with an
\* error status, reports the job completed with a video URL, failed, or
\* neither; after MaxPolls turns the 5 minutes are over
PollAnswers ==
  /\ animate.pc = "polling"
  /\ animate.polls < MaxPolls
  /\ \E answer \in {"rejected", "not-ok", "completed", "failed", "pending"} :
       LET a == [animate EXCEPT !.polls = @ + 1]
       IN IF answer = "rejected"
            THEN Notify(a, FALSE, Response(500, Unexpected, FALSE))
          ELSE IF answer = "not-ok"
            THEN Notify(a, FALSE, Response(500, "Error checking Kling job status.", FALSE))
          ELSE IF answer = "failed"
            THEN Notify(a, FALSE, Response(500, "Kling generation failed.", FALSE))
          ELSE IF answer = "pending" /\ a.polls = MaxPolls
            THEN Notify(a, FALSE, Response(500, "Timed out waiting for Kling video.", FALSE))
          ELSE /\ animate' = [a EXCEPT !.pc = IF answer = "completed" THEN "downloading"
                                                                      ELSE "polling"]
               /\ UNCHANGED server
  /\ UNCHANGED <<delivered, restarted, succeeded, webhook>>

\* downloadToFile settles; with hideWatermark the handler goes on to the
\* success notice, without it to bakeLogoWatermark
DownloadEnds ==
  /\ animate.pc = "downloading"
  /\ \E ok \in BOOLEAN, hideWatermark \in BOOLEAN :
       IF ~ok
         THEN Notify(animate, FALSE, Response(500, Unexpected, FALSE))
       ELSE IF hideWatermark
         THEN Notify([animate EXCEPT !.downloaded = TRUE], TRUE, Response(200, "none", FALSE))
       ELSE /\ animate' = [animate EXCEPT !.downloaded = TRUE, !.pc = "watermarking"]
            /\ UNCHANGED server
  /\ UNCHANGED <<delivered, restarted, succeeded, webhook>>

\* bakeLogoWatermark settles; its failure is caught and the raw video is kept
WatermarkEnds ==
  /\ animate.pc = "watermarking"
  /\ \E ok \in BOOLEAN : Notify(animate, TRUE, Response(200, "none", ok))
  /\ UNCHANGED <<delivered, restarted, succeeded, webhook>>

\* a Stripe call settles; when it is the one the request's handleJobCompletion
\* awaits, the handler goes on to its response
AnimateSettles ==
  /\ \E jobId \in Jobs, op \in Ops, ok \in BOOLEAN :
       /\ StripeSettles(jobId, op, ok, "ok")
       /\ IF animate.pc = "settling" /\ animate.jobId = jobId /\ animate.awaits = op
            THEN animate' = [animate EXCEPT !.pc = "done", !.awaits = Null,
                                            !.pending = NoResponse,
                                            !.response = animate.pending]
            ELSE UNCHANGED animate
  /\ UNCHANGED <<delivered, restarted, succeeded, webhook>>

NextAnimate ==
  \/ AnimateRequest
  \/ CreateAnswers
  \/ PollAnswers
  \/ DownloadEnds
  \/ WatermarkEnds
  \/ AnimateSettles
  \/ LiveAuthorization

SpecAnimate == Init /\ [][NextAnimate]_vars

\* ------------------------------------------------------------------ claims
\* the calls of one kind issued to Stripe for a job, whatever the reference
Issued(calls, jobId, op) == SumCalls(calls, {k \in CallKeys : k[1] = jobId /\ k[2] = op})

\* a Stripe call for the job is awaited, by a notice handler or by a sweep
CallInFlight(jobId) ==
  \/ \E op \in Ops : inFlight[<<jobId, op>>] > 0
  \/ \E i \in 1..Len(sweeps) : Head(sweeps[i].rest) = jobId

\* an authorization notice or an outcome notice for the job is handled
NoticeFor(jobId) ==
  \/ \E session \in CheckoutSessions :
       /\ session.jobId = jobId
       /\ CheckoutSessionCompleted(jobId, session.payment_intent, session.id, "ok")
  \/ \E success \in BOOLEAN : handleJobCompletion(jobId, success, "ok")

\* C1: no job ever has both a capture call and a cancel call issued to Stripe.
C1_NeverCaptureAndCancel ==
  \A jobId \in Jobs :
    ~(Issued(stripeCalls, jobId, "capture") > 0 /\ Issued(stripeCalls, jobId, "cancel") > 0)

\* C2: for every job, at most one capture call and at most one cancel call
\* is ever issued to Stripe.
C2_EachOperationAtMostOnce ==
  \A jobId \in Jobs, op \in Ops : Issued(stripeCalls, jobId, op) <= 1

\* C4: a notice handled for a job whose record is captured or canceled issues
\* no Stripe call and leaves the record's status as it was.
C4_TerminalNoticeIsNoOp ==
  [][\A jobId \in Jobs :
       (/\ Has(paymentsStore, jobId)
        /\ paymentsStore[jobId].status \in {"captured", "canceled"}
        /\ NoticeFor(jobId))
       => (/\ stripeCalls' = stripeCalls
           /\ paymentsStore'[jobId].status = paymentsStore[jobId].status)]_vars

\* C5: while a Stripe call for a job is in flight, no step issues a further
\* Stripe call for that job.
C5_NoSecondCallWhileInFlight ==
  [][\A jobId \in Jobs :
       CallInFlight(jobId)
       => \A op \in Ops : Issued(stripeCalls', jobId, op) = Issued(stripeCalls, jobId, op)]_vars

\* the calls issued for the job are exactly one call, <op>(ref)
OnlyCall(calls, jobId, op, ref) ==
  \A k \in CallKeys : k[1] = jobId => calls[k] = (IF k = <<jobId, op, ref>> THEN 1 ELSE 0)

TerminalOp(success) == IF success THEN "capture" ELSE "cancel"

\* C3: with one authorization notice and one outcome notice per job and
\* Stripe answering with success, no call is issued before both notices are
\* in, and once both are in and the call has settled, the record is captured
\* (success outcome) or canceled (failure outcome) and exactly one call, the
\* matching one with the record's reference, was issued: in either order.
C3_OrderIndependent ==
  \A jobId \in Jobs :
    /\ Len(delivered[jobId]) < 2 => \A op \in Ops : Issued(stripeCalls, jobId, op) = 0
    /\ (Len(delivered[jobId]) = 2 /\ ~CallInFlight(jobId))
       => /\ Has(paymentsStore, jobId)
          /\ paymentsStore[jobId].paymentIntentId # Null
          /\ paymentsStore[jobId].status =
               SettledStatus(TerminalOp(Got(jobId, "succ")), TRUE)
          /\ OnlyCall(stripeCalls, jobId, TerminalOp(Got(jobId, "succ")),
                      paymentsStore[jobId].paymentIntentId)

\* job-1 got the outcome first, job-2 the authorization first; both captured
C3_Witness ==
  /\ delivered["job-1"] = <<"succ", "auth">>
  /\ delivered["job-2"] = <<"auth", "succ">>
  /\ \A jobId \in Jobs : Has(paymentsStore, jobId) /\ paymentsStore[jobId].status = "captured"

\* room below the model's bound on Stripe calls
Room == TotalCalls < MaxCalls

\* C6: an authorization notice for a job with no record creates a record in
\* authorized with the notice's reference and session and issues no call; an
\* outcome notice for a record in authorized then issues exactly one call,
\* capture (success) or cancel (failure), with the record's reference; and
\* when Stripe answers an awaited call with success the record becomes
\* captured resp. canceled.
C6_AuthorizationThenOutcome ==
  /\ \A session \in CheckoutSessions :
       (/\ session.jobId # Null
        /\ session.payment_intent # Null
        /\ ~Has(paymentsStore, session.jobId))
       => ENABLED (/\ CheckoutSessionCompleted(session.jobId, session.payment_intent,
                                               session.id, "ok")
                   /\ Has(paymentsStore', session.jobId)
                   /\ paymentsStore'[session.jobId] =
                        [paymentIntentId |-> session.payment_intent,
                         sessionId |-> session.id, status |-> "authorized",
                         createdAt |-> now, updatedAt |-> Undefined]
                   /\ stripeCalls' = stripeCalls
                   /\ inFlight' = inFlight)
  /\ \A jobId \in Jobs, success \in BOOLEAN :
       (/\ Has(paymentsStore, jobId)
        /\ paymentsStore[jobId].status = "authorized"
        /\ Room)
       => /\ paymentsStore[jobId].paymentIntentId # Null
          /\ ENABLED (/\ handleJobCompletion(jobId, success, "ok")
                      /\ stripeCalls' = Issue(stripeCalls, jobId, TerminalOp(success),
                                              paymentsStore[jobId].paymentIntentId)
                      /\ inFlight' = [inFlight EXCEPT
                                        ![<<jobId, TerminalOp(success)>>] = @ + 1])
  /\ \A jobId \in Jobs, op \in Ops :
       inFlight[<<jobId, op>>] > 0
       => ENABLED (/\ StripeSettles(jobId, op, TRUE, "ok")
                   /\ Has(paymentsStore', jobId)
                   /\ paymentsStore'[jobId].status = SettledStatus(op, TRUE)
                   /\ stripeCalls' = stripeCalls)

\* authorization, success outcome, Stripe success: one capture("pi_1"), captured
C6_Witness ==
  /\ Has(paymentsStore, "job-1")
  /\ paymentsStore["job-1"] = [paymentIntentId |-> "pi_1", sessionId |-> "sess_1",
                               status |-> "captured", createdAt |-> 0, updatedAt |-> Stamp]
  /\ stripeCalls = Issue(NoCalls, "job-1", "capture", "pi_1")
  /\ inFlight = NoneInFlight

\* C7: an authorization notice for a job whose record is a placeholder
\* (render_succeeded or render_failed, no reference) writes the notice's
\* reference and session into the record and issues exactly one call with
\* that reference, capture for render_succeeded and cancel for render_failed;
\* when Stripe answers with success the record becomes captured resp. canceled.
C7_AuthorizationCompletesPlaceholder ==
  /\ \A session \in CheckoutSessions :
       (/\ session.jobId # Null
        /\ session.payment_intent # Null
        /\ Has(paymentsStore, session.jobId)
        /\ paymentsStore[session.jobId].status \in {"render_succeeded", "render_failed"}
        /\ paymentsStore[session.jobId].paymentIntentId = Null
        /\ Room)
       => LET op == TerminalOp(paymentsStore[session.jobId].status = "render_succeeded")
          IN ENABLED (/\ CheckoutSessionCompleted(session.jobId, session.payment_intent,
                                                  session.id, "ok")
                      /\ paymentsStore'[session.jobId] =
                           [paymentsStore[session.jobId] EXCEPT
                              !.paymentIntentId = session.payment_intent,
                              !.sessionId = session.id]
                      /\ stripeCalls' = Issue(stripeCalls, session.jobId, op,
                                              session.payment_intent)
                      /\ inFlight' = [inFlight EXCEPT ![<<session.jobId, op>>] = @ + 1])
  /\ \A jobId \in Jobs, op \in Ops :
       inFlight[<<jobId, op>>] > 0
       => ENABLED (/\ StripeSettles(jobId, op, TRUE, "ok")
                   /\ paymentsStore'[jobId].status =
                        (IF op = "capture" THEN "captured" ELSE "canceled")
                   /\ inFlight'[<<jobId, op>>] = inFlight[<<jobId, op>>] - 1)

\* failure outcome first, then the authorization, Stripe success: one
\* cancel("pi_2"), canceled
C7_Witness ==
  /\ Has(paymentsStore, "job-2")
  /\ paymentsStore["job-2"] = [paymentIntentId |-> "pi_2", sessionId |-> "sess_2",
                               status |-> "canceled", createdAt |-> 0, updatedAt |-> Stamp]
  /\ stripeCalls = Issue(NoCalls, "job-2", "cancel", "pi_2")
  /\ inFlight = NoneInFlight

\* C8: an outcome notice for a job with no record is handled to its end
\* without awaiting anything: it creates the placeholder record (null
\* paymentIntentId and sessionId, status render_succeeded for a success and
\* render_failed for a failure) and issues no Stripe call.
C8_EarlyOutcomeKept ==
  \A jobId \in Jobs, success \in BOOLEAN :
    ~Has(paymentsStore, jobId)
    => ENABLED (/\ handleJobCompletion(jobId, success, "ok")
                /\ Has(paymentsStore', jobId)
                /\ paymentsStore'[jobId] =
                     [paymentIntentId |-> Null, sessionId |-> Null,
                      status |-> (IF success THEN "render_succeeded" ELSE "render_failed"),
                      createdAt |-> now, updatedAt |-> Undefined]
                /\ stripeCalls' = stripeCalls
                /\ inFlight' = inFlight)

\* a placeholder made by a failure outcome, no call issued
C8_Witness ==
  /\ Has(paymentsStore, "job-1")
  /\ paymentsStore["job-1"].paymentIntentId = Null
  /\ paymentsStore["job-1"].status = "render_failed"
  /\ stripeCalls = NoCalls
  /\ inFlight = NoneInFlight

\* the record is in authorized and older, at time t0, than the timeout
Stuck(ps, jobId, t0) ==
  /\ Has(ps, jobId)
  /\ ps[jobId].status = "authorized"
  /\ t0 - ps[jobId].createdAt > AUTHORIZATION_TIMEOUT_MS

\* the place in seq of the first stuck record, 0 when there is none
FirstStuck(ps, seq, t0) ==
  IF \E i \in 1..Len(seq) : Stuck(ps, seq[i], t0)
    THEN CHOOSE i \in 1..Len(seq) :
           /\ Stuck(ps, seq[i], t0)
           /\ \A k \in 1..(i - 1) : ~Stuck(ps, seq[k], t0)
    ELSE 0

\* C9: a sweep pass cancels the records that are in authorized (no outcome
\* notice has come) and older than the maximum pending duration: when it
\* starts it issues one cancel call, with the record's reference, for the
\* first such record; when Stripe answers a cancel of the pass with success
\* that record becomes canceled; and the pass then goes on to issue the
\* cancel for the next such record.
C9_SweepCancelsStuck ==
  /\ (/\ FirstStuck(paymentsStore, keyOrder, now) # 0
      /\ Len(sweeps) < MaxSweeps
      /\ Room)
     => LET n == FirstStuck(paymentsStore, keyOrder, now)
            jobId == keyOrder[n]
        IN /\ paymentsStore[jobId].paymentIntentId # Null
           /\ ENABLED (/\ cleanupStuckAuthorizations
                       /\ stripeCalls' = Issue(stripeCalls, jobId, "cancel",
                                               paymentsStore[jobId].paymentIntentId)
                       /\ sweeps' = Append(sweeps,
                                           [now |-> now,
                                            rest |-> SubSeq(keyOrder, n, Len(keyOrder))]))
  /\ \A i \in 1..Len(sweeps) :
       Room
       => LET jobId == Head(sweeps[i].rest)
              rest == Tail(sweeps[i].rest)
          IN ENABLED (/\ SweepResumes(i, TRUE, "ok")
                      /\ paymentsStore'[jobId].status = "canceled"
                      /\ LET n == FirstStuck(paymentsStore', rest, sweeps[i].now)
                         IN IF n = 0
                              THEN stripeCalls' = stripeCalls
                              ELSE /\ stripeCalls' =
                                        Issue(stripeCalls, rest[n], "cancel",
                                              paymentsStore'[rest[n]].paymentIntentId)
                                   /\ sweeps'[i].rest = SubSeq(rest, n, Len(rest)))

\* a pass that canceled job-1 with Stripe's success and now awaits the cancel
\* of job-2, both authorized at time 0 and never given an outcome
C9_Witness ==
  /\ keyOrder = <<"job-1", "job-2">>
  /\ paymentsStore["job-1"] = [paymentIntentId |-> "pi_1", sessionId |-> "sess_1",
                               status |-> "canceled", createdAt |-> 0, updatedAt |-> Stamp]
  /\ paymentsStore["job-2"] = [paymentIntentId |-> "pi_2", sessionId |-> "sess_2",
                               status |-> "authorized", createdAt |-> 0,
                               updatedAt |-> Undefined]
  /\ sweeps = <<[now |-> 2, rest |-> <<"job-2">>]>>
  /\ stripeCalls = Issue(Issue(NoCalls, "job-1", "cancel", "pi_1"), "job-2", "cancel", "pi_2")

\* C10: as long as no write of payments.json has failed, loading the file
\* gives the in-memory ledger: the same jobIds, in the same order, each with
\* the same record (status, reference, session, createdAt, updatedAt).
C10_FileEqualsLedger ==
  ~writeFailed => /\ loadPayments(disk) = paymentsStore
                  /\ loadOrder(disk) = keyOrder

\* a handler suspended on its Stripe call, after it wrote the record's status
C10_Witness ==
  /\ ~writeFailed
  /\ inFlight[<<"job-1", "capture">>] = 1
  /\ Has(paymentsStore, "job-1")
  /\ paymentsStore["job-1"].status = "render_succeeded"
  /\ disk.kind = "json"
  /\ Len(disk.entries) = 1
  /\ disk.entries[1][2].status = "render_succeeded"
\* the record holds a reference and waits for its terminal action; an
\* authorized record is one the model's clock can still see past the timeout
Pending(jobId) ==
  /\ Has(paymentsStore, jobId)
  /\ paymentsStore[jobId].paymentIntentId # Null
  /\ \/ paymentsStore[jobId].status \in {"render_succeeded", "render_failed"}
     \/ /\ paymentsStore[jobId].status = "authorized"
        /\ paymentsStore[jobId].createdAt + AUTHORIZATION_TIMEOUT_MS < MaxTime

Resolved(jobId) ==
  /\ Has(paymentsStore, jobId)
  /\ paymentsStore[jobId].status \in {"captured", "canceled", "payment_failed",
                                       "capture_failed", "cancel_failed"}

C12_DuplicateAuthorizationIsNoOp ==
  \A session \in CheckoutSessions :
    (/\ session.jobId # Null
     /\ session.payment_intent # Null
     /\ Has(paymentsStore, session.jobId)
     /\ paymentsStore[session.jobId].status = "authorized")
    => /\ recordPayment(paymentsStore, session.jobId, session.payment_intent,
                        session.id, now)[session.jobId] = paymentsStore[session.jobId]
       /\ ENABLED (/\ CheckoutSessionCompleted(session.jobId, session.payment_intent,
                                                session.id, "ok")
                   /\ UNCHANGED <<paymentsStore, keyOrder, disk, stripeCalls, inFlight>>)
       /\ ~ENABLED (/\ CheckoutSessionCompleted(session.jobId, session.payment_intent,
                                                 session.id, "ok")
                    /\ ~UNCHANGED <<paymentsStore, keyOrder, disk, stripeCalls, inFlight>>)

\* job-1 is authorized with pi_1 since time 0, the clock has moved on, and a
\* notice for job-1 carrying pi_3 can be delivered
C12_Witness ==
  /\ Has(paymentsStore, "job-1")
  /\ paymentsStore["job-1"].status = "authorized"
  /\ paymentsStore["job-1"].paymentIntentId = "pi_1"
  /\ paymentsStore["job-1"].createdAt < now
  /\ \E session \in CheckoutSessions :
       session.jobId = "job-1" /\ session.payment_intent = "pi_3"

\* C13: every call issued to Stripe carries a reference; for a job without
\* record or whose record has no reference, neither capturePayment nor
\* cancelPayment goes on to call Stripe, and no call is awaited whose
\* settling would write a status.
C13_CallsCarryReference ==
  /\ \A k \in CallKeys : stripeCalls[k] > 0 => k[3] # Null
  /\ \A jobId \in Jobs :
       (~Has(paymentsStore, jobId) \/ paymentsStore[jobId].paymentIntentId = Null)
       => /\ ~capturePaymentCalls(paymentsStore, jobId)
          /\ ~cancelPaymentCalls(paymentsStore, jobId)
          /\ ~CallInFlight(jobId)

\* job-1 has a placeholder without reference and got no call; job-2, which
\* has a reference, got its capture call
C13_Witness ==
  /\ Has(paymentsStore, "job-1")
  /\ paymentsStore["job-1"].paymentIntentId = Null
  /\ paymentsStore["job-1"].status = "render_succeeded"
  /\ \A op \in Ops : Issued(stripeCalls, "job-1", op) = 0
  /\ stripeCalls[<<"job-2", "capture", "pi_2">>] = 1

\* when the Stripe call a notice handler awaits fails, the record goes
\* to capture_failed (capture) or cancel_failed (cancel) and the step issues
\* no call; when the cancel a sweep awaits fails, the record goes to
\* cancel_failed and the step issues no further call for that job
FailureRecorded ==
  /\ \A jobId \in Jobs :
       /\ (inFlight[<<jobId, "capture">>] > 0 /\ Has(paymentsStore, jobId))
          => ENABLED (/\ StripeSettles(jobId, "capture", FALSE, "ok")
                      /\ paymentsStore'[jobId].status = "capture_failed"
                      /\ stripeCalls' = stripeCalls)
       /\ (inFlight[<<jobId, "cancel">>] > 0 /\ Has(paymentsStore, jobId))
          => ENABLED (/\ StripeSettles(jobId, "cancel", FALSE, "ok")
                      /\ paymentsStore'[jobId].status = "cancel_failed"
                      /\ stripeCalls' = stripeCalls)
  /\ \A i \in 1..Len(sweeps) :
       Room => ENABLED (/\ SweepResumes(i, FALSE, "ok")
                       /\ paymentsStore'[Head(sweeps[i].rest)].status = "cancel_failed"
                       /\ \A op \in Ops :
                            Issued(stripeCalls', Head(sweeps[i].rest), op)
                              = Issued(stripeCalls, Head(sweeps[i].rest), op))

\* C14: a failed capture leaves the record in capture_failed and a failed
\* cancel leaves it in cancel_failed, without a further attempt in that step
\* (FailureRecorded), and no step of the server issues more than one Stripe
\* call.
C14_FailureRecordedNoRetry ==
  /\ []FailureRecorded
  /\ [][\/ stripeCalls' = stripeCalls
        \/ \E k \in CallKeys : stripeCalls' = Issue(stripeCalls, k[1], k[2], k[3])]_vars

\* the capture of job-1 and the cancel of job-2 have failed, one call each
C14_Witness ==
  /\ Has(paymentsStore, "job-1") /\ paymentsStore["job-1"].status = "capture_failed"
  /\ Has(paymentsStore, "job-2") /\ paymentsStore["job-2"].status = "cancel_failed"
  /\ Issued(stripeCalls, "job-1", "capture") = 1
  /\ Issued(stripeCalls, "job-2", "cancel") = 1
  /\ TotalCalls = 2

\* a sweep pass starts, or goes on after the cancel it awaited
SweepStep ==
  \/ cleanupStuckAuthorizations
  \/ \E i \in 1..Len(sweeps), ok \in BOOLEAN : SweepResumes(i, ok, "ok")

\* C15: an outcome notice, an authorization notice or a sweep step taken
\* while a job's record is in payment_failed leaves the record in
\* payment_failed and issues no capture or cancel call for the job.
C15_PaymentFailedIsTerminal ==
  [][\A jobId \in Jobs :
       (/\ Has(paymentsStore, jobId)
        /\ paymentsStore[jobId].status = "payment_failed"
        /\ (NoticeFor(jobId) \/ SweepStep))
       => (/\ paymentsStore'[jobId].status = "payment_failed"
           /\ \A op \in Ops :
                Issued(stripeCalls', jobId, op) = Issued(stripeCalls, jobId, op))]_vars

\* C16: an async-payment-failure notice changes the status of a record only
\* when the record is in authorized, and changes nothing in a record that is
\* captured or canceled.
C16_PaymentFailureOnlyFromAuthorized ==
  [][\A jobId \in Jobs :
       (Has(paymentsStore, jobId) /\ AsyncPaymentFailed(jobId, "ok"))
       => /\ paymentsStore[jobId].status # "authorized"
             => paymentsStore'[jobId].status = paymentsStore[jobId].status
          /\ paymentsStore[jobId].status \in {"captured", "canceled"}
             => paymentsStore'[jobId] = paymentsStore[jobId]]_vars

\* the record is in cancel_failed, holds a reference and is older than the
\* authorization timeout
FailedCancelDue(jobId) ==
  /\ Has(paymentsStore, jobId)
  /\ paymentsStore[jobId].status = "cancel_failed"
  /\ paymentsStore[jobId].paymentIntentId # Null
  /\ now - paymentsStore[jobId].createdAt > AUTHORIZATION_TIMEOUT_MS

C18_MissingOrCorruptFileGivesEmptyLedger ==
  disk.kind \in {"absent", "corrupt"}
  => /\ loadPayments(disk) = EmptyStore
     /\ loadOrder(disk) = <<>>
     /\ ENABLED (/\ Restart
                 /\ paymentsStore' = EmptyStore
                 /\ keyOrder' = <<>>)
     /\ paymentsStore = EmptyStore
        => \A success \in BOOLEAN :
             ENABLED (/\ handleJobCompletion(LiveJob, success, "ok")
                      /\ Has(paymentsStore', LiveJob)
                      /\ loadPayments(disk') = paymentsStore')

\* a write left a truncated file behind a ledger with a record and a Stripe
\* call, and the process has started again from it: the ledger is empty
C18_Witness ==
  /\ disk = CorruptFile
  /\ paymentsStore = EmptyStore
  /\ ~writeFailed
  /\ TotalCalls > 0

\* C19: when the write of payments.json fails (file left as it was, or
\* truncated), the handler still runs to its end or to its Stripe call and
\* the ledger in memory has the new state: a settling call writes its status,
\* an outcome notice writes render_succeeded / render_failed and issues its
\* call, a notice for a job without record creates the record; and a later
\* authorization notice reads the placeholder from memory and issues the
\* capture, whatever the file holds.
C19_WriteFailureKeepsMemory ==
  /\ \A w \in WriteOutcomes \ {"ok"} :
       /\ \A op \in Ops, ok \in BOOLEAN :
            (inFlight[<<LiveJob, op>>] > 0 /\ Has(paymentsStore, LiveJob))
            => ENABLED (/\ StripeSettles(LiveJob, op, ok, w)
                        /\ paymentsStore'[LiveJob].status =
                             (IF op = "capture"
                                THEN (IF ok THEN "captured" ELSE "capture_failed")
                                ELSE (IF ok THEN "canceled" ELSE "cancel_failed"))
                        /\ writeFailed')
       /\ \A success \in BOOLEAN :
            /\ (/\ Has(paymentsStore, LiveJob)
                /\ paymentsStore[LiveJob].status = "authorized"
                /\ paymentsStore[LiveJob].paymentIntentId # Null
                /\ Room)
               => ENABLED (/\ handleJobCompletion(LiveJob, success, w)
                           /\ paymentsStore'[LiveJob].status =
                                (IF success THEN "render_succeeded" ELSE "render_failed")
                           /\ Issued(stripeCalls', LiveJob, TerminalOp(success))
                                = Issued(stripeCalls, LiveJob, TerminalOp(success)) + 1
                           /\ writeFailed')
            /\ ~Has(paymentsStore, LiveJob)
               => ENABLED (/\ handleJobCompletion(LiveJob, success, w)
                           /\ Has(paymentsStore', LiveJob)
                           /\ paymentsStore'[LiveJob].status =
                                (IF success THEN "render_succeeded" ELSE "render_failed")
                           /\ writeFailed')
       /\ ~Has(paymentsStore, LiveJob)
          => ENABLED (/\ CheckoutSessionCompleted(LiveJob, "pi_1", "sess_1", w)
                      /\ Has(paymentsStore', LiveJob)
                      /\ paymentsStore'[LiveJob].status = "authorized"
                      /\ paymentsStore'[LiveJob].paymentIntentId = "pi_1"
                      /\ writeFailed')
  /\ (/\ writeFailed
      /\ Has(paymentsStore, LiveJob)
      /\ paymentsStore[LiveJob].paymentIntentId = Null
      /\ paymentsStore[LiveJob].status = "render_succeeded"
      /\ Room)
     => ENABLED (/\ CheckoutSessionCompleted(LiveJob, "pi_1", "sess_1", "ok")
                 /\ stripeCalls' = Issue(stripeCalls, LiveJob, "capture", "pi_1"))

\* no write has reached the file, and the job went from its authorization to
\* captured in memory, with its one capture call
C19_Witness ==
  /\ writeFailed
  /\ loadPayments(disk) = EmptyStore
  /\ Has(paymentsStore, LiveJob)
  /\ paymentsStore[LiveJob].status = "captured"
  /\ OnlyCall(stripeCalls, LiveJob, "capture", paymentsStore[LiveJob].paymentIntentId)

\* C20: a capture call has been issued for a job only if a success outcome
\* notice was received for that job.
C20_CaptureOnlyAfterSuccess ==
  \A jobId \in Jobs : Issued(stripeCalls, jobId, "capture") > 0 => jobId \in succeeded

\* job-1 was reported succeeded and got its capture; job-2 got a failure
\* outcome only and its cancel, and no capture
C20_Witness ==
  /\ succeeded = {"job-1"}
  /\ Issued(stripeCalls, "job-1", "capture") = 1
  /\ Has(paymentsStore, "job-2")
  /\ paymentsStore["job-2"].status \in {"render_failed", "canceled", "cancel_failed"}
  /\ Issued(stripeCalls, "job-2", "cancel") = 1
  /\ Issued(stripeCalls, "job-2", "capture") = 0

Ahead(i) == {sweeps[i].rest[k] : k \in 2..Len(sweeps[i].rest)}

\* C22: a sweep pass that resumes after the cancel it awaited issues no call
\* for a record ahead of it whose status is no longer authorized, whatever
\* the status was when the pass began.
C22_SweepChecksStatusAtIssue ==
  \A i \in 1..Len(sweeps) :
    \A jobId \in Ahead(i) :
      paymentsStore[jobId].status # "authorized"
      => ~ENABLED (/\ \E ok \in BOOLEAN : SweepResumes(i, ok, "ok")
                   /\ \E op \in Ops :
                        Issued(stripeCalls', jobId, op) # Issued(stripeCalls, jobId, op))

\* a sweep pass awaits the cancel of job-1; job-2, ahead of it and older
\* than the timeout when the pass began, is in payment_failed by now, and
\* there is room for a further call
C22_Witness ==
  /\ Len(sweeps) = 1
  /\ sweeps[1].rest = <<"job-1", "job-2">>
  /\ sweeps[1].now - paymentsStore["job-2"].createdAt > AUTHORIZATION_TIMEOUT_MS
  /\ paymentsStore["job-2"].status = "payment_failed"
  /\ paymentsStore["job-2"].paymentIntentId # Null
  /\ Room

\* C23: when the cancel a sweep pass awaits fails, the pass goes on: it
\* issues the cancel for the next record ahead that is in authorized and
\* older than the timeout, and ends only when there is none.
C23_SweepGoesOnAfterFailure ==
  \A i \in 1..Len(sweeps) :
    Room
    => LET rest == Tail(sweeps[i].rest)
       IN ENABLED (/\ SweepResumes(i, FALSE, "ok")
                   /\ LET n == FirstStuck(paymentsStore', rest, sweeps[i].now)
                      IN IF n = 0
                           THEN /\ stripeCalls' = stripeCalls
                                /\ sweeps' = RemoveAt(sweeps, i)
                           ELSE /\ stripeCalls' =
                                     Issue(stripeCalls, rest[n], "cancel",
                                           paymentsStore'[rest[n]].paymentIntentId)
                                /\ sweeps'[i].rest = SubSeq(rest, n, Len(rest)))

\* the cancel of job-1 failed in a sweep pass, and the pass awaits the
\* cancel of job-2
C23_Witness ==
  /\ keyOrder = <<"job-1", "job-2">>
  /\ paymentsStore["job-1"].status = "cancel_failed"
  /\ paymentsStore["job-2"].status = "authorized"
  /\ sweeps = <<[now |-> 2, rest |-> <<"job-2">>]>>
  /\ stripeCalls = Issue(Issue(NoCalls, "job-1", "cancel", "pi_1"), "job-2", "cancel", "pi_2")

\* the jobs whose record a step creates or changes
Changed == {jobId \in DOMAIN paymentsStore' :
              ~Has(paymentsStore, jobId) \/ paymentsStore'[jobId] # paymentsStore[jobId]}

\* the calls a step issues
NewCalls == {k \in CallKeys : stripeCalls'[k] > stripeCalls[k]}

\* a step of the handling of a notice for the job: the handler up to its
\* Stripe call, or from the settling of that call on
NoticeStepFor(jobId) ==
  \/ NoticeFor(jobId)
  \/ AsyncPaymentFailed(jobId, "ok")
  \/ \E op \in Ops, ok \in BOOLEAN : StripeSettles(jobId, op, ok, "ok")

\* C24: a step that handles a notice for a job changes no record but that
\* job's and issues no call but for that job; a sweep step changes no
\* record but the one whose cancel it awaited; and every call issued carries
\* the reference of the record of the job it is issued for, which is the
\* reference of no other record.
C24_JobsAreIndependent ==
  [][(paymentsStore' # paymentsStore \/ stripeCalls' # stripeCalls)
     => LET changed == Changed
            newCalls == NewCalls
        IN /\ \A jobId \in Jobs :
                \/ /\ changed \subseteq {jobId}
                   /\ \A k \in newCalls : k[1] = jobId
                \/ sweeps' # sweeps
                \/ ~NoticeStepFor(jobId)
           /\ \A i \in 1..Len(sweeps) :
                \/ changed \subseteq {Head(sweeps[i].rest)}
                \/ sweeps' = sweeps
                \/ ~\E ok \in BOOLEAN : SweepResumes(i, ok, "ok")
           /\ \/ changed = {}
              \/ sweeps' = sweeps
              \/ ~cleanupStuckAuthorizations
           /\ \A k \in newCalls :
                /\ k[3] = paymentsStore'[k[1]].paymentIntentId
                /\ \A other \in DOMAIN paymentsStore' \ {k[1]} :
                     paymentsStore'[other].paymentIntentId # k[3]]_vars

\* job-1 went to captured and job-2 to canceled, each with its one call and
\* its own reference
C24_Witness ==
  /\ Has(paymentsStore, "job-1") /\ paymentsStore["job-1"].status = "captured"
  /\ Has(paymentsStore, "job-2") /\ paymentsStore["job-2"].status = "canceled"
  /\ OnlyCall(stripeCalls, "job-1", "capture", "pi_1")
  /\ OnlyCall(stripeCalls, "job-2", "cancel", "pi_2")

\* C25: once the record of a job holds a reference, no step changes it.
C25_ReferenceNeverChanges ==
  [][\A jobId \in Jobs :
       (Has(paymentsStore, jobId) /\ paymentsStore[jobId].paymentIntentId # Null)
       => /\ Has(paymentsStore', jobId)
          /\ paymentsStore'[jobId].paymentIntentId = paymentsStore[jobId].paymentIntentId]_vars

\* C26: in a process that has not restarted, a job with no Stripe call in
\* flight has no record that is in render_succeeded or render_failed and
\* holds a reference.
C26_RenderStatusOnlyWhilePending ==
  \A jobId \in Jobs :
    (/\ ~CallInFlight(jobId)
     /\ Has(paymentsStore, jobId)
     /\ paymentsStore[jobId].paymentIntentId # Null)
    => paymentsStore[jobId].status \in {"authorized", "captured", "canceled",
                                        "capture_failed", "cancel_failed", "payment_failed"}

\* the capture of job-1 is awaited with the record in render_succeeded, and
\* job-2, whose cancel has settled, is at rest in canceled
C26_Witness ==
  /\ Has(paymentsStore, "job-1")
  /\ paymentsStore["job-1"].status = "render_succeeded"
  /\ paymentsStore["job-1"].paymentIntentId # Null
  /\ inFlight[<<"job-1", "capture">>] = 1
  /\ Has(paymentsStore, "job-2")
  /\ paymentsStore["job-2"].status = "canceled"
  /\ ~CallInFlight("job-2")

\* C27: a record in authorized, captured, canceled, capture_failed or
\* cancel_failed holds a reference; a record without reference is in
\* render_succeeded, render_failed or payment_failed.
C27_StatusImpliesReference ==
  \A jobId \in DOMAIN paymentsStore :
    /\ paymentsStore[jobId].status \in {"authorized", "captured", "canceled",
                                         "capture_failed", "cancel_failed"}
       => paymentsStore[jobId].paymentIntentId # Null
    /\ paymentsStore[jobId].paymentIntentId = Null
       => paymentsStore[jobId].status \in {"render_succeeded", "render_failed",
                                           "payment_failed"}

\* job-1 has a placeholder without reference that a payment-failure notice
\* moved to payment_failed; job-2 holds a reference and is captured
C27_Witness ==
  /\ Has(paymentsStore, "job-1")
  /\ paymentsStore["job-1"].paymentIntentId = Null
  /\ paymentsStore["job-1"].status = "payment_failed"
  /\ Has(paymentsStore, "job-2")
  /\ paymentsStore["job-2"].paymentIntentId = "pi_2"
  /\ paymentsStore["job-2"].status = "captured"

\* C28: when Stripe answers the capture (cancel) a handler awaits with the
\* error that the payment is already captured (already canceled), the
\* record ends in captured (canceled).
C28_AlreadyDoneIsSuccess ==
  \A jobId \in Jobs :
    /\ (inFlight[<<jobId, "capture">>] > 0 /\ Has(paymentsStore, jobId))
       => ENABLED (/\ StripeSettles(jobId, "capture", Resolves("already_done"), "ok")
                   /\ paymentsStore'[jobId].status = "captured")
    /\ (inFlight[<<jobId, "cancel">>] > 0 /\ Has(paymentsStore, jobId))
       => ENABLED (/\ StripeSettles(jobId, "cancel", Resolves("already_done"), "ok")
                   /\ paymentsStore'[jobId].status = "canceled")

\* C29: for a Stripe call awaited on behalf of a notice, what the entry
\* point answers when the call fails differs from what it answers when the
\* call succeeds: the webhook when the authorization notice came last, the
\* job-completion endpoint when the outcome notice came last.
C29_FailureReportedToCaller ==
  \A jobId \in Jobs, op \in Ops :
    (inFlight[<<jobId, op>>] > 0 /\ Len(delivered[jobId]) = 2)
    => LET done == markJobStatus(paymentsStore, jobId, SettledStatus(op, TRUE), now)
           failed == markJobStatus(paymentsStore, jobId, SettledStatus(op, FALSE), now)
       IN IF delivered[jobId][2] = "auth"
            THEN WebhookResponse(done) # WebhookResponse(failed)
            ELSE CompleteResponse(done, jobId) # CompleteResponse(failed, jobId)

\* a request whose event fails verification, whatever it announces
UnsignedEvent(type, session) == WebhookEvent(type, session, FALSE)

\* the ledger, the file or the Stripe calls differ after the step
Reached ==
  \/ paymentsStore' # paymentsStore
  \/ disk' # disk
  \/ stripeCalls' # stripeCalls
  \/ inFlight' # inFlight

\* C30 (as stated): no event that fails verification has changed the ledger
\* or issued a Stripe call.
C30_OnlyVerifiedEventsReach == ~unverified

\* C30 (amended): with STRIPE_WEBHOOK_SECRET configured, no event that fails
\* verification has changed the ledger or issued a Stripe call, and in every
\* state a request whose event fails verification is answered 400 and leaves
\* the ledger, the file and the Stripe calls as they are.
C30_VerifiedWhenSecretSet ==
  STRIPE_WEBHOOK_SECRET # Null
  => /\ ~unverified
     /\ \A type \in EventTypes, session \in CheckoutSessions :
          /\ ENABLED (UnsignedEvent(type, session) /\ rejected')
          /\ ~ENABLED (UnsignedEvent(type, session) /\ Reached)

\* with the secret configured a request was answered 400, a verified
\* authorization event has created job-1's record and a verified event has
\* led to a Stripe call
C30_Witness ==
  /\ STRIPE_WEBHOOK_SECRET # Null
  /\ rejected
  /\ ~unverified
  /\ Has(paymentsStore, "job-1")
  /\ TotalCalls > 0

\* the notices delivered for the job so far are outcomes or payment failures
\* only, so its record, if any, is a placeholder
OnlyEarlyNotices(d) == \A i \in 1..Len(d) : d[i] # "auth"

\* the status an outcome notice asks for
RenderStatus(what) == IF what = "succ" THEN "render_succeeded" ELSE "render_failed"

\* C31: while a job has got outcome notices and payment failures only, its
\* record has no reference and no call was issued for it, and when the last
\* notice was an outcome the record's status is that outcome's, whatever the
\* earlier ones were; when the first authorization notice then arrives, the
\* calls issued for the job are exactly one capture if the notice just before
\* it was a success outcome, exactly one cancel if it was a failure outcome.
C31_LastOutcomeDecides ==
  \A jobId \in Jobs :
    LET d == delivered[jobId]
        n == Len(d)
    IN /\ (n > 0 /\ OnlyEarlyNotices(d) /\ d[n] \in {"succ", "fail"})
          => /\ Has(paymentsStore, jobId)
             /\ paymentsStore[jobId].paymentIntentId = Null
             /\ paymentsStore[jobId].status = RenderStatus(d[n])
             /\ \A op \in Ops : Issued(stripeCalls, jobId, op) = 0
       /\ (n > 1 /\ d[n] = "auth" /\ OnlyEarlyNotices(SubSeq(d, 1, n - 1))
           /\ d[n - 1] \in {"succ", "fail"})
          => /\ Issued(stripeCalls, jobId, "capture") = (IF d[n - 1] = "succ" THEN 1 ELSE 0)
             /\ Issued(stripeCalls, jobId, "cancel") = (IF d[n - 1] = "fail" THEN 1 ELSE 0)
             /\ paymentsStore[jobId].paymentIntentId # Null

\* job-1 got a success outcome, then a failure outcome, then its
\* authorization notice, and the one call issued for it is a cancel
C31_Witness ==
  /\ delivered["job-1"] = <<"succ", "fail", "auth">>
  /\ Issued(stripeCalls, "job-1", "cancel") = 1
  /\ Issued(stripeCalls, "job-1", "capture") = 0

\* the event is one the switch has nothing to do for: a completed checkout
\* without jobId or without reference, a payment failure without jobId or for
\* a job without record, or an event of any other type
Ignored(type, session) ==
  IF type = "checkout.session.completed"
    THEN session.jobId = Null \/ session.payment_intent = Null
  ELSE IF type = "checkout.session.async_payment_failed"
    THEN session.jobId = Null \/ ~Has(paymentsStore, session.jobId)
  ELSE TRUE

\* C32: in every state, a verified event the switch has nothing to do for
\* is handled, and handling it leaves the ledger, its key order, the file,
\* the calls issued and the calls awaited as they were.
C32_IgnoredEventsChangeNothing ==
  \A type \in EventTypes, session \in CheckoutSessions :
    Ignored(type, session)
    => /\ ENABLED (/\ WebhookEvent(type, session, TRUE)
                   /\ UNCHANGED <<paymentsStore, keyOrder, disk, stripeCalls, inFlight>>)
       /\ ~ENABLED (/\ WebhookEvent(type, session, TRUE)
                    /\ Reached)

\* job-1 is authorized with its file written and job-2 has no record, so
\* that a payment failure for job-2 finds nothing to mark and every ignored
\* event has a ledger to leave alone
C32_Witness ==
  /\ Has(paymentsStore, "job-1")
  /\ paymentsStore["job-1"].status = "authorized"
  /\ ~Has(paymentsStore, "job-2")
  /\ disk = Stringify(paymentsStore, keyOrder)

\* C33: a sweep step issues no capture call, and every record that is in
\* capture_failed before a sweep step is the same after it.
C33_SweepLeavesCaptureFailed ==
  [][(sweeps' # sweeps /\ SweepStep)
     => /\ \A jobId \in Jobs :
             Issued(stripeCalls', jobId, "capture") = Issued(stripeCalls, jobId, "capture")
        /\ \A jobId \in DOMAIN paymentsStore :
             paymentsStore[jobId].status = "capture_failed"
             => paymentsStore'[jobId] = paymentsStore[jobId]]_vars

\* C34: in one run of the process, every step (a notice, the settling of a
\* Stripe call, the start or the resumption of a sweep pass, a clock tick)
\* keeps every jobId of the ledger in the ledger.
C34_LedgerOnlyGrows ==
  [][paymentsStore' # paymentsStore
     => DOMAIN paymentsStore \subseteq DOMAIN paymentsStore']_vars

\* both jobs have a record; job-1's was canceled and job-2's captured, each
\* after its one Stripe call
C34_Witness ==
  /\ DOMAIN paymentsStore = Jobs
  /\ paymentsStore["job-1"].status = "canceled"
  /\ paymentsStore["job-2"].status = "captured"
  /\ TotalCalls = 2

\* C35: a step that changes the ledger gives a record it creates the
\* current time as createdAt and leaves the createdAt of every record that
\* was there as it was, whichever notice, settling, sweep step or restart
\* the step is.
C35_CreatedAtSetOnce ==
  [][paymentsStore' # paymentsStore
     => \A jobId \in DOMAIN paymentsStore' :
          paymentsStore'[jobId].createdAt
            = (IF Has(paymentsStore, jobId) THEN paymentsStore[jobId].createdAt ELSE now)]_vars

\* job-1's placeholder was created at time 0 by an early outcome; its
\* authorization came later and it was captured, and createdAt is still 0
C35_Witness ==
  /\ Has(paymentsStore, "job-1")
  /\ paymentsStore["job-1"].createdAt = 0
  /\ paymentsStore["job-1"].status = "captured"
  /\ paymentsStore["job-1"].paymentIntentId # Null
  /\ now > 0

\* the request has been answered
Answered == animate.response # NoResponse

\* C36: a request with a jobId that has been answered has handed exactly
\* one outcome to handleJobCompletion, whose Stripe call, if any, has
\* settled; that outcome is a success exactly when the answer is the 200
\* one, and a success is only handed over after the download; at no point
\* has a request handed over more than one outcome; a request without jobId
\* hands over none.
C36_OneOutcomePerAnsweredRequest ==
  /\ Len(animate.notices) <= 1
  /\ animate.jobId = Null => animate.notices = <<>>
  /\ \A i \in 1..Len(animate.notices) :
       animate.notices[i] = "succ" => animate.downloaded
  /\ animate.pc = "settling" => ~Answered
  /\ (Answered /\ animate.jobId # Null)
     => /\ Len(animate.notices) = 1
        /\ animate.awaits = Null
        /\ animate.notices[1] = (IF animate.response.status = 200 THEN "succ" ELSE "fail")

\* the request for LiveJob polled until its 5 minutes were over, handed the
\* failure over, waited for the cancel call to settle and answered 500
C36_Witness ==
  /\ animate.jobId = LiveJob
  /\ animate.polls = MaxPolls
  /\ animate.response.error = "Timed out waiting for Kling video."
  /\ animate.notices = <<"fail">>
  /\ Issued(stripeCalls, LiveJob, "cancel") > 0
  /\ inFlight[<<LiveJob, "cancel">>] = 0

====
